---- MODULE Spec2Model ----
(***************************************************************************)
(* Model of RRayData (src/src/entity/RRayData.cpp): the document-attached  *)
(* ray entity data, its copy-into-document constructor and the reference-  *)
(* point protocol (getReferencePoints / moveReferencePoint).               *)
(*                                                                         *)
(* Coordinates are integers counted in grid units of half the point        *)
(* tolerance, so that fuzzy equality is strictly coarser than equality.    *)
(* Arithmetic on the grid is exact.                                        *)
(***************************************************************************)
EXTENDS Integers, Sequences, FiniteSets, TLC

VARIABLES
    data,            \* the entity data under edit: basePoint, direction, document, linetypeId
    pre,             \* the entity data before the last operation (the source, for a copy)
    op,              \* the last operation
    document,        \* argument of the last copy construction
    referencePoint,  \* arguments of the last moveReferencePoint
    targetPoint,
    hint,            \* argument of the last getReferencePoints
    ret,             \* value returned by the last moveReferencePoint
    pts,             \* sequence returned by the last getReferencePoints
    prevHint,        \* hint and result of the getReferencePoints call made
    prevPts          \* immediately before the last one, if any

vars == <<data, pre, op, document, referencePoint, targetPoint, hint, ret, pts,
          prevHint, prevPts>>

\* ---- bounds -------------------------------------------------------------
MaxX == 2
MaxY == 1

\* ---- vectors (RVector) --------------------------------------------------
\* RS::PointTolerance, in grid units: |dx| < Tol
Tol == 2

Zero == <<0, 0>>

Points == (0..MaxX) \X (0..MaxY)

Abs(n) == IF n < 0 THEN -n ELSE n

Plus(u, v) == <<u[1] + v[1], u[2] + v[2]>>

Minus(u, v) == <<u[1] - v[1], u[2] - v[2]>>

equalsFuzzy(u, v) == Abs(u[1] - v[1]) < Tol /\ Abs(u[2] - v[2]) < Tol

\* ---- documents ----------------------------------------------------------
NULL == "NULL"

Documents == {"D1", "D2"}

INVALID_ID == -1

getLinetypeByLayerId(doc) == IF doc = "D1" THEN 1 ELSE 2

Hints == {"RenderTop", "RenderThreeD"}

\* ---- RRay (shape base) --------------------------------------------------
getSecondPoint(r) == Plus(r.basePoint, r.direction)

setSecondPoint(r, v) == [r EXCEPT !.direction = Minus(v, r.basePoint)]

\* ---- RRayData -----------------------------------------------------------
\* RRayData(const RVector& basePoint, const RVector& dir): no document,
\* derived properties at the variant default.
RRayDataFromVectors(basePoint, dir) ==
    [basePoint |-> basePoint, direction |-> dir,
     document |-> NULL, linetypeId |-> INVALID_ID]

RRayDataCopy_keepSource(doc, source) ==
    [source EXCEPT !.document = doc]

RRayDataCopy_resetOnNull(doc, source) ==
    IF doc # NULL
    THEN [source EXCEPT !.document = doc,
                        !.linetypeId = getLinetypeByLayerId(doc)]
    ELSE [source EXCEPT !.document = doc, !.linetypeId = INVALID_ID]

\* RRayData(RDocument* document, const RRayData& data)
RRayDataCopy(doc, source) ==
    LET assigned == source
        attached == [assigned EXCEPT !.document = doc]
    IN  IF doc # NULL
        THEN [attached EXCEPT !.linetypeId = getLinetypeByLayerId(doc)]
        ELSE attached

getReferencePoints_reversed(r, h) == <<getSecondPoint(r), r.basePoint>>

getReferencePoints_byHint(r, h) ==
    IF h = "RenderTop"
    THEN <<r.basePoint, getSecondPoint(r)>>
    ELSE <<r.basePoint, getSecondPoint(r), r.basePoint>>

\* QList<RVector> getReferencePoints(hint) const
getReferencePoints(r, h) ==
    LET ret0 == <<>>
        ret1 == Append(ret0, r.basePoint)
        ret2 == Append(ret1, getSecondPoint(r))
    IN  ret2

moveBase_noRet(s, ref, target) ==
    IF equalsFuzzy(ref, s.data.basePoint)
    THEN [data |-> [s.data EXCEPT !.basePoint = target], ret |-> s.ret]
    ELSE s

\* first branch of moveReferencePoint; s = [data, ret]
moveBase(s, ref, target) ==
    IF equalsFuzzy(ref, s.data.basePoint)
    THEN [data |-> [s.data EXCEPT !.basePoint = target], ret |-> TRUE]
    ELSE s

moveSecond_unguarded(s, ref, target) ==
    [data |-> setSecondPoint(s.data, target), ret |-> TRUE]

moveSecond_copyPaste(s, ref, target) ==
    IF equalsFuzzy(ref, getSecondPoint(s.data))
    THEN [data |-> [s.data EXCEPT !.basePoint = target], ret |-> TRUE]
    ELSE s

moveSecond_asVector(s, ref, target) ==
    IF equalsFuzzy(ref, getSecondPoint(s.data))
    THEN [data |-> [s.data EXCEPT !.direction = target], ret |-> TRUE]
    ELSE s

\* second branch of moveReferencePoint; s = [data, ret]
moveSecond(s, ref, target) ==
    IF equalsFuzzy(ref, getSecondPoint(s.data))
    THEN [data |-> setSecondPoint(s.data, target), ret |-> TRUE]
    ELSE s

moveReferencePoint_swapped(r, ref, target) ==
    moveBase(moveSecond([data |-> r, ret |-> FALSE], ref, target), ref, target)

\* bool moveReferencePoint(referencePoint, targetPoint)
moveReferencePoint(r, ref, target) ==
    moveSecond(moveBase([data |-> r, ret |-> FALSE], ref, target), ref, target)

\* ---- state machine ------------------------------------------------------
Init ==
    /\ \E b \in Points, d \in Points : data = RRayDataFromVectors(b, d)
    /\ pre = data
    /\ op = "construct"
    /\ referencePoint = Zero
    /\ targetPoint = Zero
    /\ hint = "RenderTop"
    /\ ret = FALSE
    /\ pts = <<>>
    /\ document = NULL
    /\ prevHint = "RenderTop"
    /\ prevPts = <<>>

\* a copy of the current entity data is constructed into `document`
\* (possibly NULL) and becomes the entity data under edit
CopyIntoDocument ==
    \E doc \in Documents \cup {NULL} :
        /\ data' = RRayDataCopy(doc, data)
        /\ document' = doc
        /\ prevHint' = "RenderTop"
        /\ prevPts' = <<>>
        /\ pre' = data
        /\ op' = "copy"
        /\ ret' = FALSE
        /\ pts' = <<>>
        /\ referencePoint' = Zero
        /\ targetPoint' = Zero
        /\ hint' = "RenderTop"

GetReferencePoints ==
    \E h \in Hints :
        /\ pts' = getReferencePoints(data, h)
        /\ hint' = h
        /\ op' = "getReferencePoints"
        /\ pre' = data
        /\ ret' = FALSE
        /\ referencePoint' = Zero
        /\ targetPoint' = Zero
        /\ document' = NULL
        /\ prevHint' = IF op = "getReferencePoints" THEN hint ELSE "RenderTop"
        /\ prevPts' = IF op = "getReferencePoints" THEN pts ELSE <<>>
        /\ UNCHANGED data

MoveReferencePoint ==
    \E ref \in Points, target \in Points :
        LET res == moveReferencePoint(data, ref, target)
        IN  /\ data' = res.data
            /\ ret' = res.ret
            /\ pre' = data
            /\ op' = "moveReferencePoint"
            /\ referencePoint' = ref
            /\ targetPoint' = target
            /\ hint' = "RenderTop"
            /\ pts' = <<>>
            /\ document' = NULL
            /\ prevHint' = "RenderTop"
            /\ prevPts' = <<>>

Next == CopyIntoDocument \/ GetReferencePoints \/ MoveReferencePoint

Spec == Init /\ [][Next]_vars

\* ---- properties ---------------------------------------------------------
Moved == op = "moveReferencePoint"

Copied == op = "copy"

Got == op = "getReferencePoints"

\* the base point as it stands after the first branch of the last move
BaseAfterFirst ==
    IF equalsFuzzy(referencePoint, pre.basePoint) THEN targetPoint ELSE pre.basePoint

\* C1: moveReferencePoint called with the ray's current basePoint as the
\* reference point returns true, and afterwards the first reference point
\* is the target, whatever the direction (zero included) and the target.
C1_MoveBaseHandle ==
    (Moved /\ referencePoint = pre.basePoint)
        => /\ ret = TRUE
           /\ \A h \in Hints : getReferencePoints(data, h)[1] = targetPoint

C1_Witness ==
    /\ Moved
    /\ referencePoint = pre.basePoint
    /\ pre.direction = Zero
    /\ targetPoint # pre.basePoint
    /\ ret = TRUE
    /\ data.basePoint = targetPoint

\* C2: a reference point that fuzzy-matches neither the base point nor the
\* second point makes moveReferencePoint return false and leaves basePoint,
\* direction, document and linetypeId unchanged.
C2_NoMatchNoChange ==
    (/\ Moved
     /\ ~equalsFuzzy(referencePoint, pre.basePoint)
     /\ ~equalsFuzzy(referencePoint, getSecondPoint(pre)))
        => /\ ret = FALSE
           /\ data.basePoint = pre.basePoint
           /\ data.direction = pre.direction
           /\ data.document = pre.document
           /\ data.linetypeId = pre.linetypeId

C2_Witness ==
    /\ Moved
    /\ ~equalsFuzzy(referencePoint, pre.basePoint)
    /\ ~equalsFuzzy(referencePoint, getSecondPoint(pre))
    /\ targetPoint # pre.basePoint
    /\ targetPoint # getSecondPoint(pre)
    /\ pre.direction # Zero
    /\ pre.document # NULL
    /\ ret = FALSE

\* C3: a copy constructed into a non-null document keeps the source's
\* basePoint and direction, refers to the target document, and holds the
\* linetypeId the target document resolves, never the source's value.
C3_CopyReResolves ==
    (Copied /\ document # NULL)
        => /\ data.basePoint = pre.basePoint
           /\ data.direction = pre.direction
           /\ data.document = document
           /\ data.linetypeId = getLinetypeByLayerId(document)

C3_Witness ==
    /\ Copied
    /\ pre.document = "D1"
    /\ pre.linetypeId = getLinetypeByLayerId("D1")
    /\ document = "D2"
    /\ data.document = "D2"
    /\ data.linetypeId = getLinetypeByLayerId("D2")
    /\ data.linetypeId # pre.linetypeId

\* C4 (as claimed): a copy constructed with a null document holds the
\* variant default linetypeId, whatever the source holds.
C4_NullCopyHasDefault ==
    (Copied /\ document = NULL) => data.linetypeId = INVALID_ID

\* C4 (amended): a copy constructed with a null document succeeds, has a
\* null document reference and holds the source's linetypeId unchanged.
C4_NullCopyKeepsSource ==
    (Copied /\ document = NULL)
        => /\ data.document = NULL
           /\ data.linetypeId = pre.linetypeId
           /\ data.basePoint = pre.basePoint
           /\ data.direction = pre.direction

C4_Witness ==
    /\ Copied
    /\ document = NULL
    /\ pre.document # NULL
    /\ pre.linetypeId # INVALID_ID
    /\ data.linetypeId = pre.linetypeId

\* C5: in every reachable state and for every hint, getReferencePoints is
\* the two-element sequence [basePoint, basePoint + direction]; the two
\* points differ exactly when direction is non-zero.
C5_TwoReferencePoints ==
    /\ \A h \in Hints :
          LET p == getReferencePoints(data, h)
          IN  /\ Len(p) = 2
              /\ p[1] = data.basePoint
              /\ p[2] = Plus(data.basePoint, data.direction)
              /\ (data.direction # Zero <=> p[1] # p[2])
    /\ Got => /\ Len(pts) = 2
              /\ pts = <<data.basePoint, Plus(data.basePoint, data.direction)>>

C5_Witness ==
    /\ Got
    /\ data.direction = Zero
    /\ data.document # NULL
    /\ Len(pts) = 2
    /\ pts[1] = pts[2]

\* C6: when the reference point fuzzy-matches the second point computed
\* after the base-point branch, moveReferencePoint returns true and
\* direction = targetPoint - basePoint for the post-call basePoint, so that
\* basePoint + direction = targetPoint; basePoint is unchanged unless the
\* reference point also matched it.
C6_MoveSecondHandle ==
    (Moved /\ equalsFuzzy(referencePoint, Plus(BaseAfterFirst, pre.direction)))
        => /\ ret = TRUE
           /\ Plus(data.basePoint, data.direction) = targetPoint
           /\ data.direction = Minus(targetPoint, data.basePoint)
           /\ (~equalsFuzzy(referencePoint, pre.basePoint)
                  => data.basePoint = pre.basePoint)

C6_Witness ==
    /\ Moved
    /\ pre.basePoint = <<0, 0>>
    /\ pre.direction = <<2, 0>>
    /\ referencePoint = <<2, 0>>
    /\ targetPoint = <<1, 1>>
    /\ ret = TRUE
    /\ data.basePoint = <<0, 0>>
    /\ data.direction = <<1, 1>>

\* C7 (as claimed): a moveReferencePoint on a ray with non-zero direction
\* leaves the direction non-zero.
C7_DirectionStaysNonZero ==
    (Moved /\ pre.direction # Zero) => data.direction # Zero

\* C7 (amended): a moveReferencePoint on a ray with non-zero direction
\* leaves the direction non-zero unless its second-point branch matched and
\* the target is the post-call basePoint.
C7_NonZeroUnlessOntoBase ==
    (Moved /\ pre.direction # Zero /\ data.direction = Zero)
        => /\ ret = TRUE
           /\ targetPoint = data.basePoint
           /\ equalsFuzzy(referencePoint, Plus(BaseAfterFirst, pre.direction))

C7_Witness ==
    /\ Moved
    /\ pre.direction # Zero
    /\ data.direction = Zero
    /\ ~equalsFuzzy(referencePoint, pre.basePoint)
    /\ targetPoint = pre.basePoint

\* C8: getReferencePoints leaves the ray unchanged, and two calls with no
\* mutation in between return the same sequence whatever their hints.
C8_GetIsPure ==
    Got => /\ data = pre
           /\ (prevPts # <<>> => pts = prevPts)

C8_Witness ==
    /\ Got
    /\ prevPts # <<>>
    /\ prevHint # hint
    /\ pts = prevPts
    /\ data.direction # Zero

\* both matches of a move evaluated against the pre-call reference points
snapshotMove(r, ref, target) ==
    LET m1 == equalsFuzzy(ref, r.basePoint)
        m2 == equalsFuzzy(ref, getSecondPoint(r))
        r1 == IF m1 THEN [r EXCEPT !.basePoint = target] ELSE r
        r2 == IF m2 THEN setSecondPoint(r1, target) ELSE r1
    IN  [data |-> r2, ret |-> m1 \/ m2]

\* C9: on a ray whose two handles are not fuzzy-equal, moveReferencePoint
\* agrees with the snapshot semantics; in particular, moving the base
\* handle leaves the direction unchanged.
C9_AgreesWithSnapshot ==
    (Moved /\ ~equalsFuzzy(pre.basePoint, getSecondPoint(pre)))
        => /\ data = snapshotMove(pre, referencePoint, targetPoint).data
           /\ ret = snapshotMove(pre, referencePoint, targetPoint).ret
           /\ (referencePoint = pre.basePoint => data.direction = pre.direction)

\* C10: once the direction is zero, no operation makes it non-zero; a
\* moveReferencePoint that returns true only relocates basePoint to the
\* target, and one that returns false changes nothing.
C10_ZeroIsAbsorbing ==
    pre.direction = Zero
        => /\ data.direction = Zero
           /\ (Moved /\ ret => data = [pre EXCEPT !.basePoint = targetPoint])
           /\ (Moved /\ ~ret => data = pre)

C10_Witness ==
    /\ Moved
    /\ pre.direction = Zero
    /\ ret = TRUE
    /\ data.basePoint # pre.basePoint
    /\ data.direction = Zero
====
